---------------------------- MODULE Spec2Model ----------------------------
(***************************************************************************)
(* A model of fix_transcripts.py: the mapping builder create_fix_mapping,  *)
(* the substitution engine fix_transcript and the file wrapper             *)
(* process_file.                                                           *)
(*                                                                         *)
(* A Python str is a sequence of one-character strings, <<"L","a">>.       *)
(* A dict is a sequence of <<key, value>> pairs with distinct keys, in     *)
(* insertion order.                                                        *)
(***************************************************************************)
EXTENDS Integers, Sequences, FiniteSets, TLC

VARIABLES
    pc,              \* position of the running call
    content,         \* fix_transcript's argument / process_file's decoded input
    mapping,         \* the dict fix_transcript iterates
    fixed_content,   \* fix_transcript's local
    i,               \* index of the next item of mapping.items()
    pass,            \* 1: first call of fix_transcript, 2: the call on its own result
    first_result,    \* what the first call returned
    custom_mapping,  \* create_fix_mapping's / process_file's mapping argument
    input_file,      \* process_file's arguments
    output_file,
    disk,            \* path -> [exists, data]: the files and their bytes
    disk0,           \* the disk when process_file was entered
    linesep,         \* os.linesep of the platform
    stdout,          \* the lines printed
    exit_code        \* sys.exit's argument; 0 when process_file returns

vars == <<pc, content, mapping, fixed_content, i, pass, first_result,
          custom_mapping, input_file, output_file, disk, disk0, linesep,
          stdout, exit_code>>

-----------------------------------------------------------------------------
(* Characters *)

TAB == "\t"
LF == "\n"
CR == "\r"
BSL == "\\"
MIDDOT == "·"

AsciiLetters ==
    {"a","b","c","d","e","f","g","h","i","j","k","l","m","n","o","p","q","r",
     "s","t","u","v","w","x","y","z","A","B","C","D","E","F","G","H","I","J",
     "K","L","M","N","O","P","Q","R","S","T","U","V","W","X","Y","Z"}

OctDigits == {"0","1","2","3","4","5","6","7"}

Digits == OctDigits \cup {"8","9"}

\* the regular expression class \w on the characters of the model
IsWord(c) == c \in AsciiLetters \cup Digits \cup {"_"}

\* the characters re.escape puts a backslash before
ReSpecial ==
    {"(",")","[","]","{","}","?","*","+","-","|","^","$",BSL,".","&","~","#",
     " ",TAB,LF,CR,"\f"}

-----------------------------------------------------------------------------
(* str operations *)

\* ' ' in wrong
HasSpace(s) == \E k \in 1..Len(s) : s[k] = " "

\* text[p : p + len(key)] == key, p counted from 1
OccursAt(text, key, p) ==
    /\ p >= 1
    /\ p + Len(key) - 1 <= Len(text)
    /\ SubSeq(text, p, p + Len(key) - 1) = key

\* str.replace(old, new) for a non-empty old: a scan from the left, resumed
\* after each occurrence found
RECURSIVE StrReplaceFrom(_, _, _, _)
StrReplaceFrom(text, old, new, p) ==
    IF p > Len(text) THEN <<>>
    ELSE IF OccursAt(text, old, p)
         THEN new \o StrReplaceFrom(text, old, new, p + Len(old))
         ELSE <<text[p]>> \o StrReplaceFrom(text, old, new, p + 1)

StrReplace(text, old, new) == StrReplaceFrom(text, old, new, 1)

-----------------------------------------------------------------------------
(* re.escape, the pattern and its matching *)

RECURSIVE ReEscape(_)
ReEscape(s) ==
    IF s = <<>> THEN <<>>
    ELSE (IF Head(s) \in ReSpecial THEN <<BSL, Head(s)>> ELSE <<Head(s)>>)
         \o ReEscape(Tail(s))

\* the pattern without its leading \b
PatternNoLeadingBoundary(wrong) == ReEscape(wrong) \o <<BSL, "b">>

\* rf'\b{re.escape(wrong)}\b'
Pattern(wrong) == <<BSL, "b">> \o ReEscape(wrong) \o <<BSL, "b">>

\* The compiled pattern: \b is the word-boundary assertion, a backslash
\* before any other character of an escaped key makes it a literal, and a
\* character without a backslash is a literal (re.escape leaves no operator
\* unescaped).
RECURSIVE ReCompile(_)
ReCompile(p) ==
    IF p = <<>> THEN <<>>
    ELSE IF Head(p) = BSL
         THEN <<IF p[2] = "b" THEN [op |-> "AT_BOUNDARY", ch |-> ""]
                              ELSE [op |-> "LITERAL", ch |-> p[2]]>>
              \o ReCompile(SubSeq(p, 3, Len(p)))
         ELSE <<[op |-> "LITERAL", ch |-> Head(p)]>> \o ReCompile(Tail(p))

IsWordAt(text, p) == p >= 1 /\ p <= Len(text) /\ IsWord(text[p])

\* \b between text[p-1] and text[p]: exactly one side is a word character
\* (the start and the end of the text count as non-word)
AtBoundary(text, p) == IsWordAt(text, p - 1) # IsWordAt(text, p)

NoMatch == 0

\* the position after a match of prog[k..] at p, or NoMatch
RECURSIVE MatchFrom(_, _, _, _)
MatchFrom(prog, k, text, p) ==
    IF k > Len(prog) THEN p
    ELSE IF prog[k].op = "AT_BOUNDARY"
         THEN IF AtBoundary(text, p) THEN MatchFrom(prog, k + 1, text, p)
                                     ELSE NoMatch
         ELSE IF p <= Len(text) /\ text[p] = prog[k].ch
              THEN MatchFrom(prog, k + 1, text, p + 1)
              ELSE NoMatch

-----------------------------------------------------------------------------
(* The replacement template of re.sub *)

GROUP0 == "\\g<0>"

\* the character with code n, for the octal escapes of a template
Chr(n) == "chr(" \o ToString(n) \o ")"

OctVal(c) == CHOOSE n \in 0..7 : ToString(n) = c

TemplateEscapes ==
    ("n" :> LF) @@ ("t" :> TAB) @@ ("r" :> CR) @@ ("f" :> "\f") @@
    ("a" :> Chr(7)) @@ ("b" :> Chr(8)) @@ ("v" :> Chr(11)) @@ (BSL :> BSL)

\* the index of the first ">" of t at or after k, or 0
RECURSIVE FindClose(_, _)
FindClose(t, k) ==
    IF k > Len(t) THEN 0 ELSE IF t[k] = ">" THEN k ELSE FindClose(t, k + 1)

\* the octal digits of t from k on, at most n of them
RECURSIVE OctRun(_, _, _)
OctRun(t, k, n) ==
    IF n = 0 \/ k > Len(t) \/ t[k] \notin OctDigits THEN <<>>
    ELSE <<t[k]>> \o OctRun(t, k + 1, n - 1)

RECURSIVE OctNumber(_)
OctNumber(ds) ==
    IF ds = <<>> THEN 0
    ELSE 8 * OctNumber(SubSeq(ds, 1, Len(ds) - 1)) + OctVal(ds[Len(ds)])

\* re's parse of the template for a pattern without groups, from index k:
\* [raised, items], where an item is a character or GROUP0 (the whole match)
RECURSIVE ParseTemplate(_, _)
ParseTemplate(t, k) ==
    IF k > Len(t) THEN [raised |-> FALSE, items |-> <<>>]
    ELSE IF t[k] # BSL
    THEN LET rest == ParseTemplate(t, k + 1)
         IN  [raised |-> rest.raised, items |-> <<t[k]>> \o rest.items]
    ELSE IF k = Len(t)
    THEN [raised |-> TRUE, items |-> <<>>]        \* bad escape (end of pattern)
    ELSE LET c == t[k + 1] IN
    IF c = "g"
    THEN LET close == FindClose(t, k + 3)
             name == SubSeq(t, k + 3, close - 1)
         IN  IF /\ k + 2 <= Len(t)
                /\ t[k + 2] = "<"
                /\ close # 0
                /\ name # <<>>
                /\ \A j \in 1..Len(name) : name[j] = "0"
             THEN LET rest == ParseTemplate(t, close + 1)
                  IN  [raised |-> rest.raised, items |-> <<GROUP0>> \o rest.items]
             ELSE [raised |-> TRUE, items |-> <<>>]   \* missing <, unknown group
    ELSE IF c = "0"
    THEN LET ds == OctRun(t, k + 2, 2)
             rest == ParseTemplate(t, k + 2 + Len(ds))
         IN  [raised |-> rest.raised,
              items |-> <<Chr(OctNumber(ds))>> \o rest.items]
    ELSE IF c \in Digits
    THEN LET ds == OctRun(t, k + 1, 3) IN
         IF Len(ds) = 3 /\ OctNumber(ds) <= 255
         THEN LET rest == ParseTemplate(t, k + 4)
              IN  [raised |-> rest.raised,
                   items |-> <<Chr(OctNumber(ds))>> \o rest.items]
         ELSE [raised |-> TRUE, items |-> <<>>]       \* invalid group reference
    ELSE IF c \in DOMAIN TemplateEscapes
    THEN LET rest == ParseTemplate(t, k + 2)
         IN  [raised |-> rest.raised,
              items |-> <<TemplateEscapes[c]>> \o rest.items]
    ELSE IF c \in AsciiLetters
    THEN [raised |-> TRUE, items |-> <<>>]            \* bad escape \c
    ELSE LET rest == ParseTemplate(t, k + 2)
         IN  [raised |-> rest.raised, items |-> <<BSL, c>> \o rest.items]

\* the items of a template with the matched text put in for GROUP0
RECURSIVE Expand(_, _)
Expand(items, matched) ==
    IF items = <<>> THEN <<>>
    ELSE (IF Head(items) = GROUP0 THEN matched ELSE <<Head(items)>>)
         \o Expand(Tail(items), matched)

\* re.sub's scan: the leftmost match at or after p is replaced and the scan
\* resumes after it; after an empty match the next character is copied
RECURSIVE ReSubFrom(_, _, _, _)
ReSubFrom(prog, items, text, p) ==
    IF p > Len(text) + 1 THEN <<>>
    ELSE LET e == MatchFrom(prog, 1, text, p)
             next == IF p <= Len(text) THEN <<text[p]>> ELSE <<>>
         IN  IF e = NoMatch
             THEN next \o ReSubFrom(prog, items, text, p + 1)
             ELSE IF e = p
             THEN Expand(items, <<>>) \o next
                  \o ReSubFrom(prog, items, text, p + 1)
             ELSE Expand(items, SubSeq(text, p, e - 1))
                  \o ReSubFrom(prog, items, text, e)

\* re.sub with count=1: only the first match is replaced
RECURSIVE ReSubOnceFrom(_, _, _, _)
ReSubOnceFrom(prog, items, text, p) ==
    IF p > Len(text) + 1 THEN <<>>
    ELSE LET e == MatchFrom(prog, 1, text, p)
             next == IF p <= Len(text) THEN <<text[p]>> ELSE <<>>
         IN  IF e = NoMatch
             THEN next \o ReSubOnceFrom(prog, items, text, p + 1)
             ELSE Expand(items, SubSeq(text, p, e - 1))
                  \o SubSeq(text, e, Len(text))

ReSubOnce(pattern, repl, text) ==
    LET tpl == ParseTemplate(repl, 1) IN
    IF tpl.raised THEN [raised |-> TRUE, text |-> text]
    ELSE [raised |-> FALSE,
          text |-> ReSubOnceFrom(ReCompile(pattern), tpl.items, text, 1)]

\* re.sub(pattern, repl, string): [raised, text]
ReSub(pattern, repl, text) ==
    LET tpl == ParseTemplate(repl, 1) IN
    IF tpl.raised THEN [raised |-> TRUE, text |-> text]
    ELSE [raised |-> FALSE,
          text |-> ReSubFrom(ReCompile(pattern), tpl.items, text, 1)]

-----------------------------------------------------------------------------
(* create_fix_mapping *)

None == [some |-> FALSE, items |-> <<>>]

Some(d) == [some |-> TRUE, items |-> d]

\* the default_mapping literal, in source order
DefaultMapping ==
    << <<<<"n","o","o","s","e">>, <<"N","o","u","s">>>>,
       <<<<"D","a","l","i">>, <<"D","A","L","L",MIDDOT,"E">>>>,
       <<<<"D","e","e","p","S","e","q">>, <<"D","e","e","p","S","e","e","k">>>>,
       <<<<" ","l","a","m","a"," ">>, <<" ","L","l","a","m","a"," ">>>>,
       <<<<"L","a","m","a">>, <<"L","l","a","m","a">>>>,
       <<<<"L","A","M","A">>, <<"L","l","a","m","a">>>>,
       <<<<"L","a","m","a"," ","1">>, <<"L","l","a","m","a"," ","1">>>>,
       <<<<"O","M","O","2">>, <<"O","L","M","o"," ","2">>>>,
       <<<<"O","M","O","1">>, <<"O","L","M","o"," ","1">>>>,
       <<<<"A","L","M","O">>, <<"O","L","M","o">>>>,
       <<<<"A","l","l","m","o">>, <<"O","L","M","o">>>>,
       <<<<"S","w","y","g","g","s">>, <<"S","w","y","x">>>>,
       <<<<"G","r","e","n","e","n","f","e","l","d">>,
         <<"G","r","o","e","n","e","v","e","l","d">>>>,
       <<<<"K","y","l","e"," ","L","o","w","e">>,
         <<"K","y","l","e"," ","L","o">>>>,
       <<<<"L","u","c","a"," ","S","o","l","d","i","n","i">>,
         <<"L","u","c","a"," ","S","o","l","d","a","i","n","i">>>> >>

DictKeys(d) == [k \in 1..Len(d) |-> d[k][1]]

HasKey(d, key) == \E k \in 1..Len(d) : d[k][1] = key

\* d[key] = value done as a delete and an insert: the key always goes last
DictSetMoveLast(d, key, value) ==
    Append(SelectSeq(d, LAMBDA item : item[1] # key), <<key, value>>)

\* d[key] = value: a present key keeps its place, a new key goes last
DictSet(d, key, value) ==
    IF HasKey(d, key)
    THEN [k \in 1..Len(d) |-> IF d[k][1] = key THEN <<key, value>> ELSE d[k]]
    ELSE Append(d, <<key, value>>)

\* d.update(other): other's items are set in other's order
RECURSIVE DictUpdate(_, _)
DictUpdate(d, other) ==
    IF other = <<>> THEN d
    ELSE DictUpdate(DictSet(d, Head(other)[1], Head(other)[2]), Tail(other))

\* an empty dict is falsy, like None
CreateFixMapping(custom) ==
    IF custom.some /\ custom.items # <<>>
    THEN DictUpdate(DefaultMapping, custom.items)
    ELSE DefaultMapping

-----------------------------------------------------------------------------
(* fix_transcript *)

\* the loop body without its phrase branch: every key goes through re.sub
ApplyRuleWordOnly(text, rule) == ReSub(Pattern(rule[1]), rule[2], text)

\* one iteration of the loop over mapping.items(): [raised, text]
ApplyRule(text, rule) ==
    LET wrong == rule[1]
        correct == rule[2]
    IN  IF HasSpace(wrong)
        THEN [raised |-> FALSE, text |-> StrReplace(text, wrong, correct)]
        ELSE ReSub(Pattern(wrong), correct, text)

\* the whole call, from rule k on: [raised, text]
RECURSIVE FixFrom(_, _, _)
FixFrom(text, m, k) ==
    IF k > Len(m) THEN [raised |-> FALSE, text |-> text]
    ELSE LET r == ApplyRule(text, m[k])
         IN  IF r.raised THEN r ELSE FixFrom(r.text, m, k + 1)

FixTranscript(text, m) == FixFrom(text, m, 1)

-----------------------------------------------------------------------------
(* Inputs of the engine *)

MaxLen == 4

MaxRules == 2

Alphabet == {"a", " ", ".", TAB}

\* every text over Alphabet of at most n characters
TextsUpTo(n) == UNION {[1..k -> Alphabet] : k \in 0..n}

\* The rules the mappings are made of: a word key with a plain value, with a
\* value that holds the key again and with a bad template escape; a second
\* word key with the empty value; a phrase key with a plain value and with
\* a backslash in the value; a key whose only whitespace is a tab; a key
\* that starts with a non-word character.
Rules ==
    {<<<<"a">>, <<"b">>>>,
     <<<<"a">>, <<"a", " ", "a">>>>,
     <<<<"a">>, <<BSL, "q">>>>,
     <<<<"a", "a">>, <<>>>>,
     <<<<"a", " ", "a">>, <<"b">>>>,
     <<<<"a", " ", "a">>, <<BSL, "q">>>>,
     <<<<"a", TAB, "a">>, <<"b">>>>,
     <<<<".", "a">>, <<"b">>>>}

\* dicts of one to n rules: the keys of a dict are distinct
MappingsUpTo(n) ==
    UNION {{m \in [1..k -> Rules] :
              \A j, l \in 1..k : j # l => m[j][1] # m[l][1]} : k \in 1..n}

NoPath == "<None>"

\* the file variables of a run that touches no file
NoFiles ==
    /\ custom_mapping = None
    /\ input_file = NoPath
    /\ output_file = NoPath
    /\ disk = <<>>
    /\ disk0 = <<>>
    /\ linesep = <<LF>>
    /\ stdout = <<>>
    /\ exit_code = 0

FileVars ==
    <<custom_mapping, input_file, output_file, disk, disk0, linesep, stdout,
      exit_code>>

\* fix_transcript(content, mapping) entered, fixed_content = content done
Init ==
    /\ pc = "loop"
    /\ content \in TextsUpTo(MaxLen)
    /\ mapping \in MappingsUpTo(MaxRules)
    /\ fixed_content = content
    /\ i = 1
    /\ pass = 1
    /\ first_result = <<>>
    /\ NoFiles

-----------------------------------------------------------------------------
(* fix_transcript, one loop iteration per step *)

\* the branch of a key with a space: str.replace
ReplacePhrase ==
    /\ pc = "loop"
    /\ i <= Len(mapping)
    /\ HasSpace(mapping[i][1])
    /\ fixed_content' = ApplyRule(fixed_content, mapping[i]).text
    /\ i' = i + 1
    /\ UNCHANGED <<pc, content, mapping, pass, first_result, FileVars>>

\* the branch of every other key: re.sub, which raises on a bad template
SubWord ==
    /\ pc = "loop"
    /\ i <= Len(mapping)
    /\ ~HasSpace(mapping[i][1])
    /\ LET r == ApplyRule(fixed_content, mapping[i])
       IN  IF r.raised
           THEN /\ pc' = "raised"
                /\ UNCHANGED <<fixed_content, i>>
           ELSE /\ fixed_content' = r.text
                /\ i' = i + 1
                /\ pc' = pc
    /\ UNCHANGED <<content, mapping, pass, first_result, FileVars>>

\* return fixed_content
Return ==
    /\ pc = "loop"
    /\ i > Len(mapping)
    /\ pc' = "done"
    /\ UNCHANGED <<content, mapping, fixed_content, i, pass, first_result,
                   FileVars>>

\* fix_transcript(fix_transcript(T, M), M): the result is passed in again
CallAgain ==
    /\ pc = "done"
    /\ pass = 1
    /\ first_result' = fixed_content
    /\ content' = fixed_content
    /\ fixed_content' = fixed_content
    /\ i' = 1
    /\ pass' = 2
    /\ pc' = "loop"
    /\ UNCHANGED <<mapping, FileVars>>

Next == ReplacePhrase \/ SubWord \/ Return \/ CallAgain

Spec == Init /\ [][Next]_vars

-----------------------------------------------------------------------------
(* fix_transcript under the default mapping *)

MaxFrags == 2

\* the pieces the texts are put together from: the default keys without a
\* space, the phrases and parts of them, a key after a space, and
\* characters that make or break a word boundary
Fragments ==
    {<<"n","o","o","s","e">>, <<"D","a","l","i">>,
     <<"D","e","e","p","S","e","q">>, <<"L","a","m","a">>,
     <<"L","A","M","A">>, <<"O","M","O","2">>, <<"O","M","O","1">>,
     <<"A","L","M","O">>, <<"A","l","l","m","o">>,
     <<"S","w","y","g","g","s">>,
     <<"G","r","e","n","e","n","f","e","l","d">>,
     <<" ","l","a","m","a"," ">>, <<"l","a","m","a"," ">>,
     <<"K","y","l","e"," ","L","o","w","e">>, <<"w","e">>,
     <<"L","u","c","a"," ","S","o","l","d","i","n","i">>,
     <<" ","L","a","m","a">>, <<" ">>, <<"1">>, <<"x">>, <<".">>}

RECURSIVE Concat(_)
Concat(ss) == IF ss = <<>> THEN <<>> ELSE Head(ss) \o Concat(Tail(ss))

\* every text of at most n fragments
FragmentTextsUpTo(n) ==
    UNION {{Concat(fs) : fs \in [1..k -> Fragments]} : k \in 0..n}

\* fix_transcript(content, create_fix_mapping()) entered
InitDefault ==
    /\ pc = "loop"
    /\ content \in FragmentTextsUpTo(MaxFrags)
    /\ mapping = CreateFixMapping(None)
    /\ fixed_content = content
    /\ i = 1
    /\ pass = 1
    /\ first_result = <<>>
    /\ NoFiles

SpecDefault == InitDefault /\ [][Next]_vars

-----------------------------------------------------------------------------
(* create_fix_mapping on its own *)

MaxOverride == 2

\* a key in the middle of the default table, its first key, and two new keys
OverrideKeys ==
    {<<"L","a","m","a">>, <<"n","o","o","s","e">>, <<"F">>, <<"B">>}

OverrideValues == {<<"N","o","v","a">>, <<"L","l","a","m","a">>, <<>>}

OverrideRules == OverrideKeys \X OverrideValues

\* None and every dict of at most n rules
OverridesUpTo(n) ==
    {None} \cup
    {Some(d) : d \in UNION {{m \in [1..k -> OverrideRules] :
                               \A j, l \in 1..k : j # l => m[j][1] # m[l][1]}
                            : k \in 0..n}}

InitMap ==
    /\ pc = "build"
    /\ custom_mapping \in OverridesUpTo(MaxOverride)
    /\ content = <<>>
    /\ mapping = <<>>
    /\ fixed_content = <<>>
    /\ i = 1
    /\ pass = 1
    /\ first_result = <<>>
    /\ input_file = NoPath
    /\ output_file = NoPath
    /\ disk = <<>>
    /\ disk0 = <<>>
    /\ linesep = <<LF>>
    /\ stdout = <<>>
    /\ exit_code = 0

\* the call create_fix_mapping(custom_mapping)
BuildMapping ==
    /\ pc = "build"
    /\ mapping' = CreateFixMapping(custom_mapping)
    /\ pc' = "built"
    /\ UNCHANGED <<content, fixed_content, i, pass, first_result, FileVars>>

SpecMap == InitMap /\ [][BuildMapping]_vars

-----------------------------------------------------------------------------
(* Files: open(path, 'r' / 'w', encoding='utf-8') in text mode *)

\* a byte sequence that is not UTF-8
BADBYTE == "0xFF"

Paths == {"in.md", "out.md", "ro.md", "nodir/out.md"}

\* the directory of the path exists
ParentExists(path) == path # "nodir/out.md"

\* the path may be opened for writing
Writable(path) == path # "ro.md"

Absent == [exists |-> FALSE, data |-> <<>>]

File(data) == [exists |-> TRUE, data |-> data]

\* f.read(): the universal-newlines translation of the decoded bytes,
\* CR LF and a lone CR both read as LF
RECURSIVE ReadNewlines(_)
ReadNewlines(data) ==
    IF data = <<>> THEN <<>>
    ELSE IF Head(data) = CR
         THEN IF Len(data) >= 2 /\ data[2] = LF
              THEN <<LF>> \o ReadNewlines(SubSeq(data, 3, Len(data)))
              ELSE <<LF>> \o ReadNewlines(Tail(data))
         ELSE <<Head(data)>> \o ReadNewlines(Tail(data))

\* [raised, text]: UnicodeDecodeError on bytes that are not UTF-8
Decode(data) ==
    IF \E k \in 1..Len(data) : data[k] = BADBYTE
    THEN [raised |-> TRUE, text |-> <<>>]
    ELSE [raised |-> FALSE, text |-> ReadNewlines(data)]

\* f.write(): every LF is written as os.linesep
RECURSIVE Encode(_, _)
Encode(text, sep) ==
    IF text = <<>> THEN <<>>
    ELSE (IF Head(text) = LF THEN sep ELSE <<Head(text)>>)
         \o Encode(Tail(text), sep)

\* the output argument ignored
OutputPathInput(out, inp) == inp

\* output_file if output_file else input_file
OutputPath(out, inp) == IF out # NoPath /\ out # "" THEN out ELSE inp

-----------------------------------------------------------------------------
(* process_file *)

FileContents ==
    {<<>>,
     <<"L","a","m","a">>,
     <<"L","a","m","a","2">>,
     <<"x",LF,"L","a","m","a">>,
     <<"x",CR,LF,"y">>,
     <<BADBYTE>>}

CustomMappings ==
    {None,
     Some(<< <<<<"L","a","m","a">>, <<"N","o","v","a">>>> >>),
     Some(<< <<<<"x">>, <<BSL,"q">>>> >>)}

InitFile ==
    /\ pc = "start"
    /\ custom_mapping \in CustomMappings
    /\ input_file = "in.md"
    /\ output_file \in {NoPath, "", "in.md", "out.md", "ro.md", "nodir/out.md"}
    /\ \E inp \in {Absent} \cup {File(d) : d \in FileContents},
          out \in {Absent, File(<<"o","l","d">>)} :
          disk = [p \in Paths |->
                    CASE p = "in.md" -> inp
                      [] p = "out.md" -> out
                      [] p = "ro.md" -> File(<<"o","l","d">>)
                      [] OTHER -> Absent]
    /\ disk0 = disk
    /\ linesep \in {<<LF>>, <<CR, LF>>}
    /\ stdout = <<>>
    /\ exit_code = 0
    /\ content = <<>>
    /\ mapping = <<>>
    /\ fixed_content = <<>>
    /\ i = 1
    /\ pass = 1
    /\ first_result = <<>>

EngineVars == <<i, pass, first_result>>

Args == <<custom_mapping, input_file, output_file, disk0, linesep>>

\* except FileNotFoundError: print and sys.exit(1)
NotFoundExit ==
    /\ stdout' = Append(stdout, <<"Error: Could not find file", input_file>>)
    /\ exit_code' = 1
    /\ pc' = "exit"

\* except Exception as e: print and sys.exit(1)
ErrorExit(e) ==
    /\ stdout' = Append(stdout, <<"Error processing file:", e>>)
    /\ exit_code' = 1
    /\ pc' = "exit"

\* fix_mapping = create_fix_mapping(mapping)
MakeMapping ==
    /\ pc = "start"
    /\ mapping' = CreateFixMapping(custom_mapping)
    /\ pc' = "read"
    /\ UNCHANGED <<content, fixed_content, disk, stdout, exit_code, Args,
                   EngineVars>>

\* with open(input_file, 'r', encoding='utf-8') as f: content = f.read()
ReadInput ==
    /\ pc = "read"
    /\ IF ~disk[input_file].exists
       THEN NotFoundExit /\ UNCHANGED content
       ELSE LET d == Decode(disk[input_file].data)
            IN  IF d.raised
                THEN ErrorExit("UnicodeDecodeError") /\ UNCHANGED content
                ELSE /\ content' = d.text
                     /\ pc' = "fix"
                     /\ UNCHANGED <<stdout, exit_code>>
    /\ UNCHANGED <<mapping, fixed_content, disk, Args, EngineVars>>

\* fixed_content = fix_transcript(content, fix_mapping)
ApplyFixes ==
    /\ pc = "fix"
    /\ LET r == FixTranscript(content, mapping)
       IN  IF r.raised
           THEN ErrorExit("re.error") /\ UNCHANGED fixed_content
           ELSE /\ fixed_content' = r.text
                /\ pc' = "open"
                /\ UNCHANGED <<stdout, exit_code>>
    /\ UNCHANGED <<content, mapping, disk, Args, EngineVars>>

\* open(output_path, 'w', encoding='utf-8'): the file is created or truncated
OpenOutput ==
    /\ pc = "open"
    /\ LET path == OutputPath(output_file, input_file)
       IN  IF ~ParentExists(path)
           THEN NotFoundExit /\ UNCHANGED disk
           ELSE IF ~Writable(path)
           THEN ErrorExit("PermissionError") /\ UNCHANGED disk
           ELSE /\ disk' = [disk EXCEPT ![path] = File(<<>>)]
                /\ pc' = "write"
                /\ UNCHANGED <<stdout, exit_code>>
    /\ UNCHANGED <<content, mapping, fixed_content, Args, EngineVars>>

\* f.write(fixed_content) and the close of the with block: all the bytes
\* reach the file, or the write fails (disk full, I/O error) after some
WriteOutput ==
    /\ pc = "write"
    /\ LET path == OutputPath(output_file, input_file)
           bytes == Encode(fixed_content, linesep)
       IN  \/ /\ disk' = [disk EXCEPT ![path] = File(bytes)]
              /\ pc' = "print"
              /\ UNCHANGED <<stdout, exit_code>>
           \/ /\ \E n \in 0..(Len(bytes) - 1) :
                    disk' = [disk EXCEPT ![path] = File(SubSeq(bytes, 1, n))]
              /\ ErrorExit("OSError")
    /\ UNCHANGED <<content, mapping, fixed_content, Args, EngineVars>>

\* the two prints; process_file returns and the process exits with 0
PrintSuccess ==
    /\ pc = "print"
    /\ stdout' =
          stdout \o <<<<"Successfully processed", input_file>>>>
          \o (IF output_file # NoPath /\ output_file # ""
              THEN <<<<"Output written to", output_file>>>> ELSE <<>>)
    /\ exit_code' = 0
    /\ pc' = "exit"
    /\ UNCHANGED <<content, mapping, fixed_content, disk, Args, EngineVars>>

NextFile ==
    \/ MakeMapping
    \/ ReadInput
    \/ ApplyFixes
    \/ OpenOutput
    \/ WriteOutput
    \/ PrintSuccess

SpecFile == InitFile /\ [][NextFile]_vars

-----------------------------------------------------------------------------
(* What the claims speak of *)

WhitespaceChars == {" ", TAB, LF, CR, "\f"}

HasWhitespace(s) == \E k \in 1..Len(s) : s[k] \in WhitespaceChars

\* where key occurs in text
Occurrences(text, key) == {p \in 1..Len(text) : OccursAt(text, key, p)}

\* the occurrences with no word character right before or right after
WholeWordOccurrences(text, key) ==
    {p \in Occurrences(text, key) :
        ~IsWordAt(text, p - 1) /\ ~IsWordAt(text, p + Len(key))}

\* of the occurrences occ of a key of n characters, those a replacement of
\* all of them takes: none overlaps another, and one left out overlaps one
\* taken that starts before it
Taken(occ, n) ==
    CHOOSE S \in SUBSET occ :
        /\ \A p, q \in S : p < q => p + n <= q
        /\ \A p \in occ \ S : \E q \in S : q < p /\ p < q + n

Least(S) == CHOOSE p \in S : \A q \in S : p <= q

\* text from index from on, with new in place of the n characters at each
\* position of S
RECURSIVE Spliced(_, _, _, _, _)
Spliced(text, S, n, new, from) ==
    IF S = {} THEN SubSeq(text, from, Len(text))
    ELSE SubSeq(text, from, Least(S) - 1) \o new
         \o Spliced(text, S \ {Least(S)}, n, new, Least(S) + n)

\* text with new in place of key at the occurrences occ
Replaced(text, occ, key, new) ==
    Spliced(text, Taken(occ, Len(key)), Len(key), new, 1)

\* an iteration of the loop has just run on mapping[i] without raising
Iterated == pc = "loop" /\ i <= Len(mapping) /\ pc' = "loop" /\ i' = i + 1

Range(f) == {f[k] : k \in DOMAIN f}

-----------------------------------------------------------------------------
(* Claims on fix_transcript, under Spec *)

\* C1 as stated: an iteration on a key without whitespace replaces with
\* `correct` exactly the occurrences of the key that have no letter, digit
\* or underscore right before or right after, whatever the key's first and
\* last characters are.
C1_WholeWordOccurrencesReplaced ==
    [][(Iterated /\ ~HasWhitespace(mapping[i][1])) =>
          fixed_content' =
             Replaced(fixed_content,
                      WholeWordOccurrences(fixed_content, mapping[i][1]),
                      mapping[i][1], mapping[i][2])]_vars

Matches(key, text) ==
    IF HasSpace(key) THEN Occurrences(text, key) # {}
    ELSE \E p \in 1..(Len(text) + 1) :
            MatchFrom(ReCompile(Pattern(key)), 1, text, p) # NoMatch

\* no rule's correct value is a match for another rule's pattern
NoCrossMatch(m) ==
    \A j, k \in 1..Len(m) : j # k => ~Matches(m[k][1], m[j][2])

\* C3 as stated: when no rule's correct value matches another rule's
\* pattern, the second call of fix_transcript returns what the first
\* returned.
C3_Idempotent ==
    (pc = "done" /\ pass = 2 /\ NoCrossMatch(mapping)) =>
        fixed_content = first_result

\* every key is one word: letters, digits and underscores, at least one
WordKeys(m) ==
    \A k \in 1..Len(m) :
        m[k][1] # <<>> /\ \A j \in 1..Len(m[k][1]) : IsWord(m[k][1][j])

\* no correct value holds a backslash or a match for a pattern of the
\* mapping, its own rule's included
NoMatchInValues(m) ==
    \A j, k \in 1..Len(m) :
        /\ ~Matches(m[k][1], m[j][2])
        /\ \A n \in 1..Len(m[j][2]) : m[j][2][n] # BSL

\* C3 amended: when every key is one word and no correct value holds a
\* backslash or a match for any pattern of the mapping, the second call of
\* fix_transcript returns what the first returned.
C3_IdempotentOnWords ==
    (pc = "done" /\ pass = 2 /\ WordKeys(mapping) /\ NoMatchInValues(mapping))
        => fixed_content = first_result

\* two word rules ran twice; the result holds "b", which no input text
\* holds, so the rule for "a" has acted
C3_Witness ==
    /\ pc = "done"
    /\ pass = 2
    /\ mapping = << <<<<"a">>, <<"b">>>>, <<<<"a", "a">>, <<>>>> >>
    /\ first_result = <<" ", "b">>
    /\ fixed_content = <<" ", "b">>

\* C5 as stated: fix_transcript returns for every text and every mapping of
\* text pairs; it never raises.
C5_NeverRaises == pc # "raised"

-----------------------------------------------------------------------------
(* Claims on the default mapping, under SpecDefault *)

\* C10: under the default mapping the returned text holds no whole-word
\* occurrence of a default key without a space.
C10_NoDefaultKeyLeft ==
    (pc = "done" /\ mapping = DefaultMapping) =>
        \A k \in 1..Len(DefaultMapping) :
            ~HasSpace(DefaultMapping[k][1]) =>
                WholeWordOccurrences(fixed_content, DefaultMapping[k][1]) = {}

\* "LAMA.", a whole-word key before a full stop, came back as "Llama."
C10_Witness ==
    /\ pc = "done"
    /\ pass = 1
    /\ mapping = DefaultMapping
    /\ content = <<"L","A","M","A",".">>
    /\ fixed_content = <<"L","l","a","m","a",".">>

-----------------------------------------------------------------------------
(* Claims on create_fix_mapping, under SpecMap *)

IsNewKey(key) == ~HasKey(DefaultMapping, key)

\* C4: the built mapping has the default keys in the default order, then
\* the override's new keys in the override's order; a key of the override
\* has the override's value, every other key its default value.
C4_MergedInOrder ==
    pc = "built" =>
        LET o == custom_mapping.items
            d == DefaultMapping
        IN  /\ DictKeys(mapping) =
                  DictKeys(d) \o SelectSeq(DictKeys(o), IsNewKey)
            /\ \A k \in 1..Len(o) : o[k] \in Range(mapping)
            /\ \A k \in 1..Len(d) : ~HasKey(o, d[k][1]) => mapping[k] = d[k]

\* an override with a new key first and the default key "Lama" second:
\* "Lama" stays fifth with the new value, the new key is sixteenth
C4_Witness ==
    /\ pc = "built"
    /\ custom_mapping =
          Some(<< <<<<"F">>, <<"N","o","v","a">>>>,
                  <<<<"L","a","m","a">>, <<"N","o","v","a">>>> >>)
    /\ Len(mapping) = 16
    /\ mapping[5] = <<<<"L","a","m","a">>, <<"N","o","v","a">>>>
    /\ mapping[16] = <<<<"F">>, <<"N","o","v","a">>>>

-----------------------------------------------------------------------------
(* Claims on process_file, under SpecFile *)

\* an output path was given: the empty text names no file
OutputGiven == output_file # NoPath /\ output_file # ""

\* the bytes of the corrected text of the input file as it was at the start
CorrectedBytes ==
    Encode(FixTranscript(Decode(disk0[input_file].data).text,
                         CreateFixMapping(custom_mapping)).text, linesep)

\* the corrected text exists: the input could be read and the fix returned
Correctable ==
    /\ disk0[input_file].exists
    /\ ~Decode(disk0[input_file].data).raised
    /\ ~FixTranscript(Decode(disk0[input_file].data).text,
                      CreateFixMapping(custom_mapping)).raised

Succeeded == pc = "exit" /\ exit_code = 0

\* C6 as stated: after a successful run without an output path the input
\* path holds the corrected content and nothing else changed; with an output
\* path the input file is untouched and the output path holds the corrected
\* content.
C6_OverwriteOrOutput ==
    Succeeded =>
        IF ~OutputGiven
        THEN /\ disk[input_file] = File(CorrectedBytes)
             /\ \A p \in Paths \ {input_file} : disk[p] = disk0[p]
        ELSE /\ disk[input_file] = disk0[input_file]
             /\ output_file \in Paths
             /\ disk[output_file] = File(CorrectedBytes)
             /\ \A p \in Paths \ {input_file, output_file} : disk[p] = disk0[p]

\* C6 amended: after a successful run without an output path, or with the
\* input path itself as the output path, the input path holds the corrected
\* content and nothing else changed; with any other output path the input
\* file is untouched, the output path holds the corrected content and
\* nothing else changed.
C6_OverwriteOrOtherOutput ==
    Succeeded =>
        IF ~OutputGiven \/ output_file = input_file
        THEN /\ disk[input_file] = File(CorrectedBytes)
             /\ \A p \in Paths \ {input_file} : disk[p] = disk0[p]
        ELSE /\ disk[input_file] = disk0[input_file]
             /\ output_file \in Paths
             /\ disk[output_file] = File(CorrectedBytes)
             /\ \A p \in Paths \ {input_file, output_file} : disk[p] = disk0[p]

\* a run with -o out.md over an existing out.md: out.md now holds "Llama",
\* in.md still holds "Lama"
C6_Witness ==
    /\ Succeeded
    /\ output_file = "out.md"
    /\ custom_mapping = None
    /\ disk0["out.md"] = File(<<"o","l","d">>)
    /\ disk0["in.md"] = File(<<"L","a","m","a">>)
    /\ disk["in.md"] = File(<<"L","a","m","a">>)
    /\ disk["out.md"] = File(<<"L","l","a","m","a">>)

\* C7 as stated: exit code 0 with the confirmation on success, 1 on every
\* failure; "could not find file <input_file>" is printed exactly when the
\* input file does not exist, and any other failure is reported with the
\* error's description.
C7_ExitAndDiagnostics ==
    pc = "exit" =>
        /\ exit_code \in {0, 1}
        /\ exit_code = 0 <=>
              <<"Successfully processed", input_file>> \in Range(stdout)
        /\ <<"Error: Could not find file", input_file>> \in Range(stdout)
              <=> ~disk0[input_file].exists
        /\ (exit_code = 1 /\ disk0[input_file].exists) =>
              \E line \in Range(stdout) : line[1] = "Error processing file:"

\* C8 as stated: when the process has ended, however the run went, the
\* output path holds what it held before the run or the complete corrected
\* text.
C8_NoPartialOutput ==
    pc = "exit" =>
        LET path == OutputPath(output_file, input_file)
        IN  \/ disk[path] = disk0[path]
            \/ Correctable /\ disk[path] = File(CorrectedBytes)

\* C9 as stated: when no rule changes the text, the bytes written are the
\* bytes read, line terminators included.
C9_BytesRoundTrip ==
    (Succeeded /\ fixed_content = content) =>
        disk[OutputPath(output_file, input_file)].data
            = disk0[input_file].data

=============================================================================
